---- MODULE Spec2Model ----
(***************************************************************************)
(* folo-mcp: the request translator sendApiQuery (src/src/api.ts) and the  *)
(* tool catalog (src/src/tools.ts), registered with the MCP server in the  *)
(* bundled entry point (src/unnamed/part_000).                             *)
(*                                                                         *)
(* Every invocation is an async function: it runs synchronously up to its  *)
(* first await (fetch), is resumed when the response headers arrive, and   *)
(* resumed again when the body has been read.  Texts are modelled as       *)
(* sequences of string pieces (the pieces of the template literals), so    *)
(* "the text contains s" is "s is one of the pieces".                      *)
(***************************************************************************)
EXTENDS Integers, Sequences, FiniteSets, TLC

VARIABLES env, pc, tool, call, sessionToken, timer, aborted, request, conn,
          nreq, res, body, failure, result, requestCount

\* env           the process environment's FOLO_SESSION_TOKEN
\* pc[i]         where invocation i stands: idle, awaitFetch, awaitJson,
\*               done (returned) or threw (rejected)
\* tool[i]       the name of the tool the host called
\* call[i]       the path, method and args sendApiQuery was called with
\* sessionToken  the credential each invocation read
\* timer[i]      the invocation's timeout: none, pending, cleared or fired
\* aborted[i]    whether the invocation's abort signal has been raised
\* request[i]    what the invocation handed to fetch
\* conn[i]       the request's connection: none, open, closed or aborted
\* nreq[i]       the number of fetch calls of the invocation
\* res[i]        the status line of the response received
\* body[i]       what became of the response body
\* failure[i]    the error the network call raised, if it raised one
\* result[i]     the CallToolResult returned
\* requestCount  the number of fetch calls of all invocations
vars == <<env, pc, tool, call, sessionToken, timer, aborted, request, conn,
          nreq, res, body, failure, result, requestCount>>

(***************************************************************************)
(* Bounds of the model and constants of the program.                       *)
(***************************************************************************)
MaxInv == 2

TimeoutMs == 30000

BaseUrl == "https://api.follow.is"

UserAgent == "Mozilla/5.0 (Macintosh; Intel Mac OS X 10_15_7) AppleWebKit/537.36 (KHTML, like Gecko) Chrome/134.0.0.0 Safari/537.36"

CookieName == "__Secure-better-auth.session_token="

(***************************************************************************)
(* JavaScript / JSON values.  An object is a sequence of <<key, value>>    *)
(* pairs in insertion order.                                               *)
(***************************************************************************)
Undefined == [t |-> "undefined"]

Null == [t |-> "null"]

Num(n) == [t |-> "num", n |-> n]

Str(s) == [t |-> "str", s |-> s]

Bool(b) == [t |-> "bool", b |-> b]

Arr(a) == [t |-> "arr", a |-> a]

Obj(o) == [t |-> "obj", o |-> o]

\* JavaScript truthiness (the conditions x ? a : b, x || y and !x).
Truthy(v) ==
    CASE v.t = "undefined" -> FALSE
      [] v.t = "null" -> FALSE
      [] v.t = "bool" -> v.b
      [] v.t = "num" -> v.n # 0
      [] v.t = "str" -> v.s # ""
      [] OTHER -> TRUE

\* The operands that make x ?? y and x?.k fall through.
Nullish(v) == v.t \in {"undefined", "null"}

\* An "in" that accepts every operand.
IsObjectLike_Any(v) == TRUE

\* "k in v" is defined on objects (and arrays) only and throws a TypeError
\* on every primitive, null included.
IsObjectLike(v) == v.t \in {"obj", "arr"}

HasKey(v, k) == v.t = "obj" /\ \E j \in 1..Len(v.o) : v.o[j][1] = k

\* v.k (and v?.k): the field's value, undefined when v has no such field.
Get(v, k) ==
    IF HasKey(v, k)
    THEN v.o[CHOOSE j \in 1..Len(v.o) : v.o[j][1] = k][2]
    ELSE Undefined

\* String(v), the conversion a template literal applies to a scalar.
JsString(v) ==
    CASE v.t = "undefined" -> "undefined"
      [] v.t = "null" -> "null"
      [] v.t = "bool" -> (IF v.b THEN "true" ELSE "false")
      [] v.t = "num" -> ToString(v.n)
      [] v.t = "str" -> v.s
      [] v.t = "arr" -> ""
      [] OTHER -> "[object Object]"

\* The indentation JSON.stringify writes at a nesting depth.
Indent(space, depth) == [j \in 1..(space * depth) |-> " "]

NewLine(space) == IF space > 0 THEN <<"\n">> ELSE <<>>

Colon(space) == IF space > 0 THEN ": " ELSE ":"

RECURSIVE JSONstringify(_, _, _)
RECURSIVE StringifyItems(_, _, _, _)
RECURSIVE StringifyMembers(_, _, _, _)

\* The elements a[from..] of an array, one per line when space > 0.
StringifyItems(a, from, space, depth) ==
    IF from > Len(a) THEN <<>>
    ELSE Indent(space, depth) \o JSONstringify(a[from], space, depth)
         \o (IF from < Len(a) THEN <<",">> ELSE <<>>) \o NewLine(space)
         \o StringifyItems(a, from + 1, space, depth)

\* The members o[from..] of an object, one per line when space > 0.
StringifyMembers(o, from, space, depth) ==
    IF from > Len(o) THEN <<>>
    ELSE Indent(space, depth) \o <<"\"", o[from][1], "\"", Colon(space)>>
         \o JSONstringify(o[from][2], space, depth)
         \o (IF from < Len(o) THEN <<",">> ELSE <<>>) \o NewLine(space)
         \o StringifyMembers(o, from + 1, space, depth)

\* JSON.stringify(v, null, space) as the sequence of the pieces it writes;
\* space = 0 is JSON.stringify(v).
JSONstringify(v, space, depth) ==
    CASE v.t = "null" -> <<"null">>
      [] v.t = "bool" -> <<IF v.b THEN "true" ELSE "false">>
      [] v.t = "num" -> <<ToString(v.n)>>
      [] v.t = "str" -> <<"\"", v.s, "\"">>
      [] v.t = "arr" ->
            IF Len(v.a) = 0 THEN <<"[]">>
            ELSE <<"[">> \o NewLine(space)
                 \o StringifyItems(v.a, 1, space, depth + 1)
                 \o Indent(space, depth) \o <<"]">>
      [] v.t = "obj" ->
            IF Len(v.o) = 0 THEN <<"{}">>
            ELSE <<"{">> \o NewLine(space)
                 \o StringifyMembers(v.o, 1, space, depth + 1)
                 \o Indent(space, depth) \o <<"}">>

RECURSIVE JoinQuery(_, _)
\* The items of a query string joined by "&".
JoinQuery(items, from) ==
    IF from > Len(items) THEN <<>>
    ELSE items[from] \o (IF from < Len(items) THEN <<"&">> ELSE <<>>)
         \o JoinQuery(items, from + 1)

\* ufo's stringifyQuery on an object of scalars: key=value items joined by
\* "&"; a value that is falsy after numbers and booleans were converted to
\* strings leaves the bare key.
EncodeQueryItem(kv) ==
    IF kv[2].t \in {"num", "bool"} \/ Truthy(kv[2])
    THEN <<kv[1], "=", JsString(kv[2])>>
    ELSE <<kv[1]>>

stringifyQuery(args) ==
    JoinQuery([j \in 1..Len(args.o) |-> EncodeQueryItem(args.o[j])], 1)

(***************************************************************************)
(* The tool catalog: every entry's fixed (path, method) pair.              *)
(***************************************************************************)
Query(path, method) == [query |-> [path |-> path, method |-> method]]

tools ==
    ("entry_list" :> Query("/entries", "POST"))
 @@ ("subscription_list" :> Query("/subscriptions", "GET"))
 @@ ("unread_count" :> Query("/reads", "GET"))
 @@ ("feed_info" :> Query("/feeds", "GET"))
 @@ ("mark_read" :> Query("/reads/all", "POST"))
 @@ ("star_entry" :> Query("/collections", "POST"))
 @@ ("unstar_entry" :> Query("/collections", "DELETE"))
 @@ ("subscribe" :> Query("/subscriptions", "POST"))
 @@ ("unsubscribe" :> Query("/subscriptions", "DELETE"))
 @@ ("get_entry" :> Query("/entries", "GET"))
 @@ ("discover_feed" :> Query("/discover", "POST"))
 @@ ("get_profile" :> Query("/better-auth/get-session", "GET"))

\* A handler that spreads the caller's args over the fixed pair.
Handler_ArgsOverride(name, args) ==
    [path |-> IF HasKey(args, "path") THEN Get(args, "path").s
              ELSE tools[name].query.path,
     method |-> IF HasKey(args, "method") THEN Get(args, "method").s
                ELSE tools[name].query.method,
     args |-> args]

\* The handler registered for a tool: sendApiQuery({...query, args}).
Handler(name, args) ==
    [path |-> tools[name].query.path,
     method |-> tools[name].query.method,
     args |-> args]

(***************************************************************************)
(* The pieces of sendApiQuery.                                             *)
(***************************************************************************)
Return(v) == [type |-> "return", value |-> v]

Throw(e) == [type |-> "throw", error |-> e]

\* process.env.FOLO_SESSION_TOKEN is undefined or a string.
EnvToken(e) == IF e.set THEN Str(e.val) ELSE Undefined

\* A credential check that only notices an unset variable.
MissingToken_UnsetOnly(tok) == tok.t = "undefined"

\* if (!sessionToken)
MissingToken(tok) == ~Truthy(tok)

CredentialError ==
    [isError |-> TRUE,
     text |-> <<"Error: ", "FOLO_SESSION_TOKEN",
                " environment variable is not set. Please provide your Folo session token to authenticate API requests.">>]

\* A method test that forgets DELETE.
isBodyMethod_PostOnly(method) == method = "POST"

isBodyMethod(method) == method = "POST" \/ method = "DELETE"

\* The url, method, headers and body handed to fetch.
BuildRequest(c, tok) ==
    [url |-> <<BaseUrl, c.path>>
             \o (IF ~isBodyMethod(c.method)
                 THEN <<"?">> \o stringifyQuery(c.args) ELSE <<>>),
     method |-> c.method,
     headers |-> ("cookie" :> <<CookieName, tok.s, ";">>)
              @@ ("user-agent" :> <<UserAgent>>)
              @@ (IF isBodyMethod(c.method)
                  THEN ("content-type" :> <<"application/json">>)
                  ELSE <<>>),
     body |-> IF ~isBodyMethod(c.method) THEN Undefined
              ELSE [t |-> "text", pieces |-> JSONstringify(c.args, 0, 0)]]

\* A clearTimeout that leaves the timer armed.
clearTimeout_Noop(t) == t

\* clearTimeout(timeoutId): cancels a pending timer, no effect otherwise.
clearTimeout(t) ==
    IF t.state = "pending" THEN [t EXCEPT !.state = "cleared"] ELSE t

\* setTimeout(() => controller.abort(), 30000)
setTimeout(delay) == [state |-> "pending", delay |-> delay]

NoTimer == [state |-> "none", delay |-> 0]

SyntaxError == [name |-> "SyntaxError", message |-> <<"Unexpected token in JSON">>]

BodyUnusable == [name |-> "TypeError", message |-> <<"Body is unusable">>]

AbortError == [name |-> "AbortError", message |-> <<"This operation was aborted">>]

\* res.json(): reads the body to its end, then parses it.
resJson(b) ==
    CASE b.kind = "json" -> Return(b.value)
      [] b.kind = "text" -> Throw(SyntaxError)
      [] OTHER -> Throw(b.error)

\* res.text(): the raw text of a body that has not been read yet.
resText(b, bodyUsed) ==
    IF bodyUsed THEN Throw(BodyUnusable)
    ELSE IF b.kind = "text" THEN Return(b.raw)
    ELSE Throw(b.error)

\* The result of the inner catch: the status and the raw text, or the
\* status phrase when the text is empty.
NonJsonError(r, text) ==
    [isError |-> TRUE,
     text |-> <<"Error: HTTP ", ToString(r.status), " - ",
                (IF text # "" THEN text ELSE r.statusText),
                ". The API returned a non-JSON response.">>]

\* The TypeError of "'code' in json" on a value that is not an object.
InTypeError(json) ==
    [name |-> "TypeError",
     message |-> <<"Cannot use 'in' operator to search for 'code' in ",
                   JsString(json)>>]

\* A code check that only rejects positive codes.
CodeCheckFails_PositiveOnly(json) ==
    /\ HasKey(json, "code")
    /\ Get(json, "code").t = "num" /\ Get(json, "code").n > 0

\* 'code' in json && json.code !== 0, for an object or array json.
CodeCheckFails(json) ==
    /\ HasKey(json, "code")
    /\ ~(Get(json, "code").t = "num" /\ Get(json, "code").n = 0)

ApiError(json) ==
    [isError |-> TRUE,
     text |-> <<"Error: ",
                (IF Truthy(Get(json, "message"))
                 THEN JsString(Get(json, "message"))
                 ELSE "Unknown API error"),
                ". Code: ", JsString(Get(json, "code")), ".">>]

\* json?.data ?? json
Payload(json) ==
    IF Nullish(Get(json, "data")) THEN json ELSE Get(json, "data")

Success(json) ==
    [isError |-> FALSE,
     text |-> IF Truthy(Payload(json))
              THEN JSONstringify(Payload(json), 2, 0)
              ELSE <<"Success">>]

\* A try block without the inner catch around res.json().
TryAfterFetch_NoInnerCatch(r, b) ==
    LET j == resJson(b) IN
    IF j.type = "throw" THEN Throw(j.error)
    ELSE IF ~IsObjectLike(j.value) THEN Throw(InTypeError(j.value))
    ELSE IF CodeCheckFails(j.value) THEN Return(ApiError(j.value))
    ELSE Return(Success(j.value))

\* The try block from the response on: what it returns or throws.
TryAfterFetch(r, b) ==
    LET j == resJson(b) IN
    IF j.type = "throw"
    THEN LET t == resText(b, TRUE) IN
         Return(NonJsonError(r, IF t.type = "throw" THEN "" ELSE t.value))
    ELSE IF ~IsObjectLike(j.value) THEN Throw(InTypeError(j.value))
    ELSE IF CodeCheckFails(j.value) THEN Return(ApiError(j.value))
    ELSE Return(Success(j.value))

TimeoutError ==
    [isError |-> TRUE,
     text |-> <<"Error: Request ", "timed out",
                " after 30 seconds. Please check your network connection and try again.">>]

UnexpectedError(error) ==
    [isError |-> TRUE,
     text |-> <<"Error: ">>
              \o (IF error.message # <<>> THEN error.message
                  ELSE <<"An unexpected error occurred">>)
              \o <<". Please try again.">>]

\* A catch block that reports every failure as a timeout.
CatchBlock_AlwaysTimeout(error) == Return(TimeoutError)

\* A catch block that handles the abort only and rethrows the rest.
CatchBlock_Rethrow(error) ==
    IF error.name = "AbortError" THEN Return(TimeoutError)
    ELSE Throw(error)

\* The outer catch block.
CatchBlock(error) ==
    IF error.name = "AbortError" THEN Return(TimeoutError)
    ELSE Return(UnexpectedError(error))

\* What the invocation completes with, given what its try block did.
Completion(c) == IF c.type = "throw" THEN CatchBlock(c.error) ELSE c

(***************************************************************************)
(* The environment: the host's calls and the upstream's behaviour.  The    *)
(* first invocation ranges over the whole catalog and over every response  *)
(* shape; the invocations running beside it range over one tool and a few  *)
(* responses.                                                              *)
(***************************************************************************)
Inv == 1..MaxInv

EnvValues ==
    {[set |-> FALSE, val |-> ""], [set |-> TRUE, val |-> ""],
     [set |-> TRUE, val |-> "tokA"]}

ToolNames(i) == IF i = 1 THEN DOMAIN tools ELSE {"unread_count"}

ArgValues(i) ==
    IF i = 1
    THEN {Obj(<<>>),
          Obj(<< <<"view", Num(0)>> >>),
          Obj(<< <<"entryId", Str("123")>> >>),
          Obj(<< <<"path", Str("/evil")>>, <<"method", Str("PUT")>> >>)}
    ELSE {Obj(<<>>)}

ResponseHeads(i) ==
    IF i = 1
    THEN {[status |-> 200, statusText |-> "OK"],
          [status |-> 404, statusText |-> ""],
          [status |-> 500, statusText |-> "Internal Server Error"]}
    ELSE {[status |-> 200, statusText |-> "OK"]}

Json(v) == [kind |-> "json", value |-> v]

Text(raw) == [kind |-> "text", raw |-> raw]

JsonBodies ==
    {Null, Num(7), Num(0), Str("ok"), Bool(TRUE), Bool(FALSE),
     Arr(<<>>), Arr(<<Num(1)>>),
     Obj(<<>>),
     Obj(<< <<"user", Obj(<< <<"id", Str("u1")>> >>)>> >>),
     Obj(<< <<"code", Num(0)>>, <<"data", Obj(<< <<"a", Num(1)>> >>)>> >>),
     Obj(<< <<"code", Num(0)>>, <<"data", Num(0)>> >>),
     Obj(<< <<"code", Num(0)>>, <<"data", Bool(FALSE)>> >>),
     Obj(<< <<"code", Num(0)>>, <<"data", Str("")>> >>),
     Obj(<< <<"code", Num(0)>>, <<"data", Arr(<<>>)>> >>),
     Obj(<< <<"code", Num(0)>>, <<"data", Obj(<<>>)>> >>),
     Obj(<< <<"code", Num(0)>>, <<"data", Null>> >>),
     Obj(<< <<"code", Num(0)>> >>),
     Obj(<< <<"code", Num(42)>>, <<"message", Str("bad")>> >>),
     Obj(<< <<"code", Num(-1)>>, <<"message", Str("")>> >>),
     Obj(<< <<"code", Num(1000000)>>, <<"data", Obj(<< <<"a", Num(1)>> >>)>> >>),
     Obj(<< <<"code", Str("0")>>, <<"message", Str("denied")>>, <<"data", Num(5)>> >>)}

Bodies(i) ==
    IF i = 1
    THEN {Json(v) : v \in JsonBodies}
         \cup {Text("<html>Bad Gateway</html>"), Text("")}
    ELSE {Json(Obj(<< <<"code", Num(0)>>, <<"data", Obj(<< <<"a", Num(1)>> >>)>> >>)),
          Json(Obj(<< <<"code", Num(42)>>, <<"message", Str("bad")>> >>))}

\* What fetch rejects with when the network call fails.
TransportErrors(i) ==
    IF i = 1
    THEN {[name |-> "TypeError", message |-> <<"fetch failed">>],
          [name |-> "Error", message |-> <<>>]}
    ELSE {[name |-> "TypeError", message |-> <<"fetch failed">>]}

\* What reading the body rejects with when the connection breaks.
StreamErrors(i) == {[name |-> "TypeError", message |-> <<"terminated">>]}

NoCall == [path |-> "", method |-> "", args |-> Undefined]

NoRequest == [url |-> <<>>, method |-> "", headers |-> <<>>, body |-> Undefined]

NoResponse == [status |-> 0, statusText |-> ""]

NoBody == [kind |-> "none"]

NoError == [name |-> "", message |-> <<>>]

NoResult == [isError |-> FALSE, text |-> <<>>]

(***************************************************************************)
(* The state after the server has registered its tools.                    *)
(***************************************************************************)
Init ==
    /\ env \in EnvValues
    /\ pc = [i \in Inv |-> "idle"]
    /\ tool = [i \in Inv |-> ""]
    /\ call = [i \in Inv |-> NoCall]
    /\ sessionToken = [i \in Inv |-> Undefined]
    /\ timer = [i \in Inv |-> NoTimer]
    /\ aborted = [i \in Inv |-> FALSE]
    /\ request = [i \in Inv |-> NoRequest]
    /\ conn = [i \in Inv |-> "none"]
    /\ nreq = [i \in Inv |-> 0]
    /\ res = [i \in Inv |-> NoResponse]
    /\ body = [i \in Inv |-> NoBody]
    /\ failure = [i \in Inv |-> NoError]
    /\ result = [i \in Inv |-> NoResult]
    /\ requestCount = 0

\* The invocation completes: the async function returns c's value, or
\* rejects when c is a throw.
Settle(i, c) ==
    /\ pc' = [pc EXCEPT ![i] = IF c.type = "return" THEN "done" ELSE "threw"]
    /\ result' = [result EXCEPT ![i] = IF c.type = "return" THEN c.value ELSE NoResult]

\* call-tool: the handler calls sendApiQuery, which runs up to the await of
\* fetch, or returns at the credential check.
Invoke(i, name, args) ==
    /\ pc[i] = "idle"
    /\ tool' = [tool EXCEPT ![i] = name]
    /\ call' = [call EXCEPT ![i] = Handler(name, args)]
    /\ sessionToken' = [sessionToken EXCEPT ![i] = EnvToken(env)]
    /\ IF MissingToken(EnvToken(env))
       THEN /\ Settle(i, Return(CredentialError))
            /\ UNCHANGED <<timer, request, conn, nreq, requestCount>>
       ELSE /\ timer' = [timer EXCEPT ![i] = setTimeout(TimeoutMs)]
            /\ request' = [request EXCEPT ![i] =
                              BuildRequest(Handler(name, args), EnvToken(env))]
            /\ conn' = [conn EXCEPT ![i] = "open"]
            /\ nreq' = [nreq EXCEPT ![i] = @ + 1]
            /\ requestCount' = requestCount + 1
            /\ pc' = [pc EXCEPT ![i] = "awaitFetch"]
            /\ UNCHANGED result
    /\ UNCHANGED <<env, aborted, res, body, failure>>

\* The response headers arrive: fetch resolves, the timer is cleared and
\* res.json() starts reading the body.
FetchResolves(i, r) ==
    /\ pc[i] = "awaitFetch"
    /\ ~aborted[i]
    /\ res' = [res EXCEPT ![i] = r]
    /\ timer' = [timer EXCEPT ![i] = clearTimeout(@)]
    /\ pc' = [pc EXCEPT ![i] = "awaitJson"]
    /\ UNCHANGED <<env, tool, call, sessionToken, aborted, request, conn, nreq,
                   body, failure, result, requestCount>>

\* A failure handler that issues the request again instead of returning.
FetchRejects_Retry(i, e) ==
    /\ pc[i] = "awaitFetch"
    /\ ~aborted[i]
    /\ nreq[i] < 3
    /\ nreq' = [nreq EXCEPT ![i] = @ + 1]
    /\ requestCount' = requestCount + 1
    /\ UNCHANGED <<env, pc, tool, call, sessionToken, timer, aborted, request,
                   conn, res, body, failure, result>>

\* The network call fails: fetch rejects and the catch block runs.
FetchRejects(i, e) ==
    /\ pc[i] = "awaitFetch"
    /\ ~aborted[i]
    /\ conn' = [conn EXCEPT ![i] = "closed"]
    /\ timer' = [timer EXCEPT ![i] = clearTimeout(@)]
    /\ failure' = [failure EXCEPT ![i] = e]
    /\ Settle(i, Completion(Throw(e)))
    /\ UNCHANGED <<env, tool, call, sessionToken, aborted, request, nreq, res,
                   body, requestCount>>

\* A timer callback that aborts one controller shared by all invocations.
TimerFires_SharedController(i) ==
    /\ timer[i].state = "pending"
    /\ timer' = [timer EXCEPT ![i].state = "fired"]
    /\ aborted' = [j \in DOMAIN aborted |-> TRUE]
    /\ conn' = [j \in DOMAIN conn |-> IF conn[j] = "open" THEN "aborted" ELSE conn[j]]
    /\ UNCHANGED <<env, pc, tool, call, sessionToken, request, nreq, res, body,
                   failure, result, requestCount>>

\* The timer expires: its callback aborts the controller's signal, which
\* cancels the request if it is still in flight.
TimerFires(i) ==
    /\ timer[i].state = "pending"
    /\ timer' = [timer EXCEPT ![i].state = "fired"]
    /\ aborted' = [aborted EXCEPT ![i] = TRUE]
    /\ conn' = [conn EXCEPT ![i] = IF @ = "open" THEN "aborted" ELSE @]
    /\ UNCHANGED <<env, pc, tool, call, sessionToken, request, nreq, res, body,
                   failure, result, requestCount>>

\* The aborted signal rejects the pending promise with an AbortError: the
\* fetch, or the body read of res.json().
AbortRejects(i) ==
    /\ aborted[i]
    /\ pc[i] \in {"awaitFetch", "awaitJson"}
    /\ body' = [body EXCEPT ![i] =
                   IF pc[i] = "awaitJson"
                   THEN [kind |-> "error", error |-> AbortError] ELSE @]
    /\ timer' = [timer EXCEPT ![i] = clearTimeout(@)]
    /\ Settle(i, IF pc[i] = "awaitFetch"
                 THEN Completion(Throw(AbortError))
                 ELSE Completion(TryAfterFetch(res[i],
                                     [kind |-> "error", error |-> AbortError])))
    /\ failure' = [failure EXCEPT ![i] = AbortError]
    /\ UNCHANGED <<env, tool, call, sessionToken, aborted, request, conn, nreq,
                   res, requestCount>>

\* The body has been received: res.json() settles and the rest of the
\* function runs to its return.
BodyArrives(i, b) ==
    /\ pc[i] = "awaitJson"
    /\ ~aborted[i]
    /\ body' = [body EXCEPT ![i] = b]
    /\ conn' = [conn EXCEPT ![i] = "closed"]
    /\ timer' = [timer EXCEPT ![i] =
                    IF TryAfterFetch(res[i], b).type = "throw"
                    THEN clearTimeout(@) ELSE @]
    /\ Settle(i, Completion(TryAfterFetch(res[i], b)))
    /\ UNCHANGED <<env, tool, call, sessionToken, aborted, request, nreq, res,
                   failure, requestCount>>

\* The connection breaks while the body is being read.
BodyFails(i, e) ==
    /\ pc[i] = "awaitJson"
    /\ ~aborted[i]
    /\ body' = [body EXCEPT ![i] = [kind |-> "error", error |-> e]]
    /\ conn' = [conn EXCEPT ![i] = "closed"]
    /\ timer' = [timer EXCEPT ![i] =
                    IF TryAfterFetch(res[i], [kind |-> "error", error |-> e]).type = "throw"
                    THEN clearTimeout(@) ELSE @]
    /\ failure' = [failure EXCEPT ![i] = e]
    /\ Settle(i, Completion(TryAfterFetch(res[i], [kind |-> "error", error |-> e])))
    /\ UNCHANGED <<env, tool, call, sessionToken, aborted, request, nreq, res,
                   requestCount>>

Next ==
    \/ \E i \in DOMAIN pc : \E name \in ToolNames(i), args \in ArgValues(i) :
          Invoke(i, name, args)
    \/ \E i \in DOMAIN pc : \E r \in ResponseHeads(i) : FetchResolves(i, r)
    \/ \E i \in DOMAIN pc : \E e \in TransportErrors(i) : FetchRejects(i, e)
    \/ \E i \in DOMAIN pc : TimerFires(i)
    \/ \E i \in DOMAIN pc : AbortRejects(i)
    \/ \E i \in DOMAIN pc : \E b \in Bodies(i) : BodyArrives(i, b)
    \/ \E i \in DOMAIN pc : \E e \in StreamErrors(i) : BodyFails(i, e)

Spec == Init /\ [][Next]_vars

\* The timer and the promise reactions are run by the event loop; nothing
\* obliges the upstream to answer.
FairSpec ==
    Spec /\ \A i \in Inv : WF_vars(TimerFires(i)) /\ WF_vars(AbortRejects(i))

TypeOK ==
    /\ env \in EnvValues
    /\ \A i \in Inv :
          /\ pc[i] \in {"idle", "awaitFetch", "awaitJson", "done", "threw"}
          /\ timer[i].state \in {"none", "pending", "cleared", "fired"}
          /\ conn[i] \in {"none", "open", "closed", "aborted"}
          /\ aborted[i] \in BOOLEAN
          /\ nreq[i] \in 0..1
    /\ requestCount \in 0..MaxInv

(***************************************************************************)
(* Properties.                                                             *)
(***************************************************************************)
Contains(text, piece) == \E k \in 1..Len(text) : text[k] = piece

Returned(i) == pc[i] = "done"

\* C1: while the environment holds no session credential (the variable is
\* unset or empty), every invocation made returns an error result whose
\* text contains "FOLO_SESSION_TOKEN", no request is issued and no timer is
\* armed.
C1_NoCredentialNoRequest ==
    (~env.set \/ env.val = "") =>
        /\ requestCount = 0
        /\ \A i \in Inv :
              /\ timer[i].state = "none"
              /\ nreq[i] = 0 /\ request[i] = NoRequest /\ conn[i] = "none"
              /\ pc[i] # "idle" =>
                    /\ Returned(i)
                    /\ result[i].isError
                    /\ Contains(result[i].text, "FOLO_SESSION_TOKEN")

C1_Witness ==
    /\ env.set /\ env.val = ""
    /\ \E i \in Inv : Returned(i) /\ call[i].method = "POST"
                      /\ Contains(result[i].text, "FOLO_SESSION_TOKEN")

\* C2: when the timer expires before the response has arrived, the request
\* in flight is aborted and the invocation can only return the timeout
\* error, whose text contains "timed out"; the timeout error is returned
\* only by an invocation whose timer has expired.
C2_TimeoutOnlyOnExpiry ==
    \A i \in Inv :
        /\ timer[i].state = "fired" =>
              /\ aborted[i] /\ conn[i] = "aborted" /\ res[i] = NoResponse
              /\ pc[i] \in {"awaitFetch", "done"}
              /\ Returned(i) =>
                    /\ result[i].isError
                    /\ Contains(result[i].text, "timed out")
        /\ (Returned(i) /\ result[i] = TimeoutError) => timer[i].state = "fired"

C2_Witness ==
    \E i \in Inv : Returned(i) /\ timer[i].state = "fired"
                   /\ conn[i] = "aborted" /\ result[i] = TimeoutError

\* C3: every invocation that has issued its request returns, whether the
\* upstream stalls before the response headers or while the body is read.
C3_BoundedCall ==
    \A i \in Inv : (pc[i] \in {"awaitFetch", "awaitJson"}) ~> Returned(i)

\* The failure kinds of an invocation, read off the environment.
NoCredential == ~env.set \/ env.val = ""

NonJsonBody(i) == body[i].kind \in {"text", "error"}

NonZeroCode(i) ==
    /\ body[i].kind = "json"
    /\ HasKey(body[i].value, "code")
    /\ ~(Get(body[i].value, "code").t = "num" /\ Get(body[i].value, "code").n = 0)

TimedOut(i) == timer[i].state = "fired"

TransportFailed(i) == conn[i] = "closed" /\ res[i] = NoResponse

\* C4: no invocation ends in an exception; an invocation that has completed
\* holds a result, and no invocation holds one before; under each of the
\* five failure kinds the result has isError set.
C4_NeverThrows ==
    \A i \in Inv :
        /\ pc[i] # "threw"
        /\ Returned(i) <=> result[i] # NoResult
        /\ (Returned(i) /\ (NoCredential \/ NonJsonBody(i) \/ NonZeroCode(i)
                            \/ TimedOut(i) \/ TransportFailed(i)))
              => result[i].isError /\ Len(result[i].text) > 0

C4_Witness ==
    \E i \in Inv : Returned(i) /\ TransportFailed(i) /\ result[i].isError
                   /\ Contains(result[i].text, "fetch failed")

\* C5: a GET request carries the args as the query string after base URL
\* and path, no body and no content-type header; a POST or DELETE request
\* carries the args as JSON body with a JSON content-type and no query
\* string; every request carries the cookie built from the credential and
\* the fixed user-agent.
C5_RequestConstruction ==
    \A i \in Inv : request[i] # NoRequest =>
        /\ request[i].method = call[i].method
        /\ request[i].headers["cookie"] = <<CookieName, env.val, ";">>
        /\ request[i].headers["user-agent"] = <<UserAgent>>
        /\ call[i].method = "GET" =>
              /\ request[i].url
                    = <<BaseUrl, call[i].path, "?">> \o stringifyQuery(call[i].args)
              /\ request[i].body = Undefined
              /\ "content-type" \notin DOMAIN request[i].headers
              /\ call[i].args = Obj(<< <<"view", Num(0)>> >>)
                    => SubSeq(request[i].url, 4, 6) = <<"view", "=", "0">>
        /\ call[i].method \in {"POST", "DELETE"} =>
              /\ request[i].url = <<BaseUrl, call[i].path>>
              /\ ~Contains(request[i].url, "?")
              /\ request[i].body.t = "text"
              /\ request[i].body.pieces = JSONstringify(call[i].args, 0, 0)
              /\ request[i].headers["content-type"] = <<"application/json">>
              /\ call[i].args = Obj(<< <<"entryId", Str("123")>> >>)
                    => request[i].body.pieces
                         = <<"{", "\"", "entryId", "\"", ":", "\"", "123", "\"", "}">>

C5_Witness ==
    \E i \in Inv :
        /\ request[i].method = "DELETE" /\ env.val = "tokA"
        /\ call[i].args = Obj(<< <<"entryId", Str("123")>> >>)

\* C6: a JSON response whose code is 0 and whose data is present and not
\* null yields a non-error result whose text is the pretty-printed data.
C6_DataPayloadPrinted ==
    \A i \in Inv :
        (/\ pc[i] \in {"done", "threw"}
         /\ body[i].kind = "json"
         /\ HasKey(body[i].value, "code") /\ Get(body[i].value, "code") = Num(0)
         /\ HasKey(body[i].value, "data") /\ Get(body[i].value, "data") # Null)
        => /\ Returned(i)
           /\ ~result[i].isError
           /\ result[i].text = JSONstringify(Get(body[i].value, "data"), 2, 0)

\* C7: a JSON response with a code field that is not 0 yields an error
\* result whose text contains the message (the fallback literal when the
\* message is missing or empty) and the code, whether or not data is there.
C7_NonZeroCodeIsError ==
    \A i \in Inv :
        (pc[i] \in {"done", "threw"} /\ NonZeroCode(i)) =>
            /\ Returned(i)
            /\ result[i].isError
            /\ Contains(result[i].text,
                 IF HasKey(body[i].value, "message")
                    /\ Get(body[i].value, "message") # Str("")
                 THEN Get(body[i].value, "message").s
                 ELSE "Unknown API error")
            /\ Contains(result[i].text, JsString(Get(body[i].value, "code")))
            /\ result[i].text[1] = "Error: "

C7_Witness ==
    \E i \in Inv :
        /\ Returned(i) /\ result[i].isError
        /\ body[i] = Json(Obj(<< <<"code", Num(-1)>>, <<"message", Str("")>> >>))
        /\ Contains(result[i].text, "-1")

\* C8: a response whose body is not valid JSON yields, for every status,
\* the non-JSON error whose text contains the status; the body never
\* reaches the code check or the success path.
C8_NonJsonQuotesStatus ==
    \A i \in Inv :
        (pc[i] \in {"done", "threw"} /\ body[i].kind = "text") =>
            /\ Returned(i)
            /\ result[i].isError
            /\ result[i].text[1] = "Error: HTTP "
            /\ Contains(result[i].text, ToString(res[i].status))

C8_Witness ==
    \E i \in Inv :
        /\ Returned(i) /\ body[i] = Text("<html>Bad Gateway</html>")
        /\ res[i].status = 500 /\ Contains(result[i].text, "500")

\* C9: a response that is the JSON null, or a JSON object that passes the
\* code check with its data missing or null, yields the non-error result
\* whose text is "Success".
C9_NoPayloadIsSuccess ==
    \A i \in Inv :
        (/\ pc[i] \in {"done", "threw"}
         /\ body[i].kind = "json"
         /\ \/ body[i].value = Null
            \/ /\ HasKey(body[i].value, "code")
               /\ Get(body[i].value, "code") = Num(0)
               /\ Get(body[i].value, "data") \in {Undefined, Null})
        => /\ Returned(i)
           /\ ~result[i].isError
           /\ result[i].text = <<"Success">>

\* C10: an invocation that passed the credential check has issued exactly
\* one request, and none issues a second one, whatever failure ends it.
C10_OneRequestNoRetry ==
    /\ \A i \in Inv :
          /\ nreq[i] <= 1
          /\ (pc[i] # "idle" /\ ~NoCredential) => nreq[i] = 1
    /\ requestCount = Cardinality({i \in Inv : nreq[i] = 1})

C10_Witness ==
    \E i \in Inv :
        /\ Returned(i) /\ nreq[i] = 1 /\ requestCount = 1
        /\ result[i].isError /\ (TransportFailed(i) \/ NonZeroCode(i))

\* Everything invocation i owns.
Local(i) ==
    <<pc[i], tool[i], call[i], sessionToken[i], timer[i], aborted[i],
      request[i], conn[i], nreq[i], res[i], body[i], failure[i], result[i]>>

\* The result of invocation i run alone with the same credential and the
\* same upstream behaviour.
Alone(i) ==
    IF NoCredential THEN CredentialError
    ELSE IF timer[i].state = "fired" THEN TimeoutError
    ELSE IF res[i] = NoResponse THEN UnexpectedError(failure[i])
    ELSE Completion(TryAfterFetch(res[i], body[i])).value

\* C11: every step changes the state of one invocation only; an
\* invocation's signal is aborted only by the expiry of its own timer; and
\* the result an invocation returns is the one it would return alone with
\* the same credential and the same upstream behaviour.
C11_Isolated ==
    [][\A i \in Inv :
          Local(i)' # Local(i) =>
              /\ \A j \in Inv \ {i} : Local(j)' = Local(j)
              /\ (aborted'[i] /\ ~aborted[i]) =>
                    (timer[i].state = "pending" /\ timer'[i].state = "fired")
              /\ (Returned(i)' /\ ~Returned(i)) => result'[i] = Alone(i)']_vars

C11_Witness ==
    \E i, j \in Inv :
        /\ i # j
        /\ Returned(i) /\ result[i] = TimeoutError /\ conn[i] = "aborted"
        /\ Returned(j) /\ ~result[j].isError /\ ~aborted[j]
        /\ timer[j].state = "cleared"

\* C12: an invocation that has returned, whatever its outcome, has no
\* pending timer (it was never armed, was cancelled or has fired) and no
\* request in flight.
C12_NothingLeftBehind ==
    \A i \in Inv :
        Returned(i) =>
            /\ timer[i].state \in {"none", "cleared", "fired"}
            /\ conn[i] \in {"none", "closed", "aborted"}
            /\ timer[i].state = "none" <=> NoCredential

C12_Witness ==
    /\ \A i \in Inv : Returned(i)
    /\ \E i \in Inv : timer[i].state = "cleared" /\ ~result[i].isError
    /\ \E i \in Inv : timer[i].state = "fired" \/ TransportFailed(i)

\* C13: a failure raised by the network call other than the abort of the
\* timeout, before the response headers or while the body is received,
\* ends in an error result whose text carries the failure's message.
C13_FailureMessageCarried ==
    \A i \in Inv :
        (/\ pc[i] \in {"done", "threw"}
         /\ failure[i] # NoError /\ failure[i].name # "AbortError")
        => /\ Returned(i)
           /\ result[i].isError
           /\ \A k \in 1..Len(failure[i].message) :
                 Contains(result[i].text, failure[i].message[k])

EnumeratedPaths ==
    {"/entries", "/subscriptions", "/reads", "/reads/all", "/feeds",
     "/collections", "/discover", "/better-auth/get-session"}

\* C14: the request of a call-tool has the path and the method of the
\* called entry, whatever the args hold; every entry's method is GET, POST
\* or DELETE and every entry's path is one of the eight enumerated paths.
C14_FixedPathAndMethod ==
    /\ \A name \in DOMAIN tools :
          /\ tools[name].query.method \in {"GET", "POST", "DELETE"}
          /\ tools[name].query.path \in EnumeratedPaths
    /\ \A i \in Inv : request[i] # NoRequest =>
          /\ tool[i] \in DOMAIN tools
          /\ request[i].method = tools[tool[i]].query.method
          /\ SubSeq(request[i].url, 1, 2) = <<BaseUrl, tools[tool[i]].query.path>>
          /\ call[i].path = tools[tool[i]].query.path
          /\ call[i].method = tools[tool[i]].query.method

C14_Witness ==
    \E i \in Inv :
        /\ tool[i] = "unstar_entry"
        /\ HasKey(call[i].args, "path") /\ HasKey(call[i].args, "method")
        /\ request[i].method = "DELETE"
        /\ request[i].url = <<BaseUrl, "/collections">>

\* C15: when the body is not valid JSON, the error result quotes the raw
\* body text after the HTTP status if that text is not empty, and the
\* status phrase if it is empty.
C15_RawTextQuoted ==
    \A i \in Inv :
        (Returned(i) /\ body[i].kind = "text") =>
            /\ result[i].isError
            /\ SubSeq(result[i].text, 1, 3)
                  = <<"Error: HTTP ", ToString(res[i].status), " - ">>
            /\ result[i].text[4]
                  = IF body[i].raw # "" THEN body[i].raw ELSE res[i].statusText

\* C16: for every status, a JSON object body with no code field or with
\* code 0 yields a non-error result whose text is the pretty-printed
\* payload (the data field, or the whole object when data is missing or
\* null).
C16_StatusIgnoredForJson ==
    \A i \in Inv :
        (/\ pc[i] \in {"done", "threw"}
         /\ body[i].kind = "json" /\ body[i].value.t = "obj"
         /\ HasKey(body[i].value, "code") => Get(body[i].value, "code") = Num(0))
        => /\ Returned(i)
           /\ ~result[i].isError
           /\ result[i].text = JSONstringify(Payload(body[i].value), 2, 0)

\* C17: a body that is valid JSON but neither an object nor an array ends
\* in the error result of the catch block, built from the TypeError of the
\* code check: never a success, never "Success", never an exception.
C17_PrimitiveBodyIsError ==
    \A i \in Inv :
        (/\ pc[i] \in {"done", "threw"}
         /\ body[i].kind = "json"
         /\ body[i].value.t \in {"null", "num", "str", "bool"})
        => /\ Returned(i)
           /\ result[i].isError
           /\ result[i].text # <<"Success">>
           /\ result[i].text
                 = <<"Error: ", "Cannot use 'in' operator to search for 'code' in ",
                     JsString(body[i].value), ". Please try again.">>

C17_Witness ==
    \E i \in Inv :
        /\ Returned(i) /\ body[i] = Json(Num(0)) /\ res[i].status = 200
        /\ result[i].isError /\ Contains(result[i].text, "0")

====
